---- MODULE Spec2Model ----
(***************************************************************************)
(* State-machine model of inference/opencv/reader/video_reader.py: the     *)
(* VideoReader adapter around a cv2.VideoCapture handle.                    *)
(*                                                                         *)
(* Strings are sequences of tokens: "/" and "." are the two characters the *)
(* extension test looks at, every other token is a run of ordinary         *)
(* characters.  Frames are numbered 1, 2, ... in the order the backend     *)
(* holds them; 0 is an all-zero frame of np.zeros.  Python's None is the   *)
(* empty tuple and a present value x is <<x>>.  The mirrored width, height *)
(* and fps of _post_init take no part in control flow and are left out.    *)
(***************************************************************************)
EXTENDS Integers, Sequences, FiniteSets, TLC

\* ------------------------------------------------------------- bounds
MaxFrames == 5
MaxBatch == 2
MaxReleases == 2

\* ----------------------------------------------------- python values
None == <<>>
Some(x) == <<x>>

Min(a, b) == IF a < b THEN a ELSE b
Max(a, b) == IF a > b THEN a ELSE b

\* ---------------------------------------------------------- strings
Digits == {"0", "1"}

\* str.lower(), token by token
LowerToken(w) ==
    CASE w = "MKV" -> "mkv"
      [] w = "Mp4" -> "mp4"
      [] OTHER -> w

lower(s) == [i \in 1..Len(s) |-> LowerToken(s[i])]

\* str.isdigit(): non-empty and every character a digit
isdigit(s) == Len(s) > 0 /\ \A i \in 1..Len(s) : s[i] \in Digits

\* str.rfind(t) + 1, with positions counted from 1: 0 when t does not occur
rfind1(s, t) ==
    LET hits == {i \in 1..Len(s) : s[i] = t}
    IN  IF hits = {} THEN 0 ELSE CHOOSE i \in hits : \A j \in hits : j <= i

\* os.path.basename(p): what follows the last "/"
basename(p) == SubSeq(p, rfind1(p, "/") + 1, Len(p))

\* s.split('.')[-1]: what follows the last "." (all of s when it has none)
split_last(s) == SubSeq(s, rfind1(s, ".") + 1, Len(s))

_EXTENSIONS == {"avi", "mkv", "mp4", "mov", "wmv", "webm", "flv", "mpg"}

\* x in self._EXTENSIONS, for a string x given as tokens
in_EXTENSIONS(x) == Len(x) = 1 /\ x[1] \in _EXTENSIONS

\* The test of line 36 ("not ... in ..." is "not (... in ...)")
extension_ok(text) == in_EXTENSIONS(lower(split_last(basename(text))))

\* ------------------------------------------------------ descriptors
\* A descriptor is a str (is_int FALSE) or an int (is_int TRUE); text is str(path).
StrPaths ==
    { <<"clip", ".", "mp4">>,
      <<"dir", "/", "clip", ".", "MKV">>,
      <<"mp4">>,
      <<"clip", ".", "txt">>,
      <<"clip", ".", "mp4", ".", "txt">>,
      <<"dir", ".", "mp4", "/", "clip">>,
      <<"clip", ".", "mp4", "/">>,
      <<"clip">>,
      <<"0">>,
      << >> }

IntPaths == { <<"0">>, <<"1">> }

Descriptors ==
    [is_int : {FALSE}, text : StrPaths] \cup [is_int : {TRUE}, text : IntPaths]

\* ---------------------------------------------------------- backend
\* cv2.VideoCapture: opened is isOpened(); pos frames of total were delivered;
\* a flaky source (a live device) may fail a read and deliver on a later one.
NoCapture ==
    [opened |-> FALSE, pos |-> 0, total |-> 0, flaky |-> FALSE, by_index |-> FALSE]

VideoCapture(by_index, can_open, total, flaky) ==
    [opened |-> can_open,
     pos |-> 0,
     total |-> IF can_open THEN total ELSE 0,
     flaky |-> can_open /\ flaky,
     by_index |-> by_index]

\* cap.read() -> (flag, frame); ok is the source's choice when it is flaky
cap_read(c, ok) ==
    LET flag == c.opened /\ c.pos < c.total /\ (ok \/ ~c.flaky)
    IN  [flag |-> flag,
         frame |-> IF flag THEN Some(c.pos + 1) ELSE None,
         cap |-> [c EXCEPT !.pos = IF flag THEN @ + 1 ELSE @]]

\* cap.release(); fails is the backend's release raising
cap_release(c, fails) == IF fails THEN c ELSE [c EXCEPT !.opened = FALSE]

\* ------------------------------------------------------- the adapter
_init_props ==
    [_name |-> None,
     _is_open |-> TRUE,
     _info |-> None,
     _video_stream |-> "None",
     _frame_count |-> 0,
     _batch_size |-> None,
     _dynamic_batch |-> FALSE,
     _video_title |-> None]

\* is_open(); it is asked only of an adapter that holds a handle (without one
\* the attribute access fails), and a missing handle counts as not open here
is_open(s, c) == s._video_stream = "cap" /\ c.opened /\ s._is_open

\* _post_init: raise when the source is not open, else mirror the handle
_post_init(s, c) ==
    IF ~is_open(s, c)
    THEN [self |-> s, cap |-> c, raised |-> "SourceUnavailable"]
    ELSE [self |-> [s EXCEPT !._is_open = c.opened, !._info = Some(s._name)],
          cap |-> c,
          raised |-> "none"]

\* __init__(path, batch_size, dynamic_batch) over a backend described by
\* can_open, total and flaky.  opened counts the cv2.VideoCapture(...) calls.
__init__(path, batch_size, dynamic_batch, can_open, total, flaky) ==
    LET s0 == _init_props IN
    IF path.is_int
    THEN \* os.path.basename(int) raises TypeError
         [self |-> s0, cap |-> NoCapture, raised |-> "TypeError", opened |-> 0]
    ELSE IF ~extension_ok(path.text)
    THEN [self |-> s0, cap |-> NoCapture, raised |-> "InvalidSource", opened |-> 0]
    ELSE LET name == path.text
             s1 == [s0 EXCEPT !._name = Some(name),
                              !._batch_size = batch_size,
                              !._dynamic_batch = dynamic_batch,
                              !._video_stream = "cap",
                              !._video_title =
                                  IF ~isdigit(name) THEN Some(name)
                                                    ELSE Some(<<"Webcam">>)]
             c1 == VideoCapture(isdigit(name), can_open, total, flaky)
             r  == _post_init(s1, c1)
         IN  [self |-> r.self, cap |-> r.cap, raised |-> r.raised, opened |-> 1]

\* read_frame with the counter bumped on every call
read_frame_always_counts(st, ok) ==
    LET r == cap_read(st.cap, ok)
    IN  [self |-> [st.self EXCEPT !._frame_count = @ + 1, !._is_open = r.flag],
         cap |-> r.cap,
         ret |-> r.frame]

\* read_frame that leaves _is_open alone
read_frame_keeps_open(st, ok) ==
    LET r == cap_read(st.cap, ok)
    IN  [self |-> [st.self EXCEPT
                     !._frame_count = @ + (IF r.frame = None THEN 0 ELSE 1)],
         cap |-> r.cap,
         ret |-> r.frame]

\* read_frame: st is [self, cap]; the result adds ret, the frame or None
read_frame(st, ok) ==
    LET r == cap_read(st.cap, ok)
    IN  [self |-> [st.self EXCEPT
                     !._frame_count = @ + (IF r.frame = None THEN 0 ELSE 1),
                     !._is_open = r.flag],
         cap |-> r.cap,
         ret |-> r.frame]

\* Python's seq[:stop]
slice_to(seq, stop) ==
    LET n == Len(seq)
        e == IF stop < 0 THEN Max(n + stop, 0) ELSE Min(stop, n)
    IN  SubSeq(seq, 1, e)

\* np.zeros((n, ...))
zeros(n) == [k \in 1..n |-> 0]

\* the return of read_batch with the slice one short
batch_return_short(batch, i, dynamic) ==
    IF dynamic THEN slice_to(batch, i) ELSE batch

\* the return of read_batch slicing whatever the flag says
batch_return_always_slices(batch, i, dynamic) == slice_to(batch, i + 1)

\* line 220: batch[:i + 1] if self._dynamic_batch else batch
batch_return(batch, i, dynamic) ==
    IF dynamic THEN slice_to(batch, i + 1) ELSE batch

\* The loop of read_batch from index i (0-based) on; oks[i + 1] is the source's
\* choice for the read of slot i.  Gives the state, the batch and the final i.
\* (The read of one iteration is bound once, as r, and the iteration's outcome
\* taken from the one-element set of it.)
RECURSIVE fill_batch(_, _, _, _)
fill_batch(st, batch, i, oks) ==
    IF i >= Len(batch)
    THEN [st |-> st, batch |-> batch, i |-> Len(batch) - 1]
    ELSE LET iteration(r) ==
                 IF r.ret = None
                 THEN [st |-> [self |-> r.self, cap |-> r.cap],
                       batch |-> batch,
                       i |-> i - 1]
                 ELSE fill_batch([self |-> r.self, cap |-> r.cap],
                                 [batch EXCEPT ![i + 1] = r.ret[1]],
                                 i + 1, oks)
         IN  CHOOSE x \in {iteration(r) : r \in {read_frame(st, oks[i + 1])}} : TRUE

\* A result handed to the caller: None, one frame, or a batch of frames
NoResult == [kind |-> "None", frames |-> <<>>]
FrameResult(f) == IF f = None THEN NoResult ELSE [kind |-> "frame", frames |-> f]
BatchResult(b) == [kind |-> "batch", frames |-> b]

\* read_batch that gives None for a batch in which nothing was read
read_batch_none_when_empty(st, oks) ==
    IF ~is_open(st.self, st.cap)
    THEN [self |-> st.self, cap |-> st.cap, ret |-> NoResult]
    ELSE LET f == fill_batch(st, zeros(st.self._batch_size[1]), 0, oks)
         IN  [self |-> f.st.self,
              cap |-> f.st.cap,
              ret |-> IF f.i < 0 THEN NoResult
                      ELSE BatchResult(batch_return(f.batch, f.i,
                                                    st.self._dynamic_batch))]

\* read_batch (a batch size is configured)
read_batch(st, oks) ==
    IF ~is_open(st.self, st.cap)
    THEN [self |-> st.self, cap |-> st.cap, ret |-> NoResult]
    ELSE LET f == fill_batch(st, zeros(st.self._batch_size[1]), 0, oks)
         IN  [self |-> f.st.self,
              cap |-> f.st.cap,
              ret |-> BatchResult(batch_return(f.batch, f.i,
                                               st.self._dynamic_batch))]

\* read: one frame without a batch size, a batch with one
read(st, oks) ==
    IF st.self._batch_size = None
    THEN LET r == read_frame(st, oks[1])
         IN  [self |-> r.self, cap |-> r.cap, ret |-> FrameResult(r.ret)]
    ELSE read_batch(st, oks)

\* ------------------------------------------------------------ state
VARIABLES
    pc,            \* "new", "ready" (constructed), "failed" (__init__ raised), "dead"
    self,          \* the adapter's fields
    cap,           \* the backend handle
    source,        \* the descriptor __init__ was given
    can_open,      \* whether the backend can open that source
    last_op,       \* the operation that ran last
    ret,           \* what it returned
    raised,        \* the exception it let out, "none" when it returned
    history,       \* the real frames the reads have handed out, in order
    absent_seen,   \* some read has returned None
    release_calls, \* invocations of the handle's release()
    open_calls     \* invocations of cv2.VideoCapture(...)

vars == <<pc, self, cap, source, can_open, last_op, ret, raised, history,
          absent_seen, release_calls, open_calls>>

ReadOps == {"read_frame", "read_batch", "read", "__next__"}

\* the choices the source makes during one call: one per backend read
Choices(s) ==
    [1..(IF s._batch_size = None THEN 1 ELSE s._batch_size[1]) -> BOOLEAN]

Init ==
    /\ pc = "new"
    /\ self = _init_props
    /\ cap = NoCapture
    /\ source = [is_int |-> FALSE, text |-> <<>>]
    /\ can_open = FALSE
    /\ last_op = "none"
    /\ ret = NoResult
    /\ raised = "none"
    /\ history = <<>>
    /\ absent_seen = FALSE
    /\ release_calls = 0
    /\ open_calls = 0

\* VideoReader(path, batch_size, dynamic_batch)
Construct ==
    /\ pc = "new"
    /\ \E path \in Descriptors,
          bs \in {None} \cup {Some(n) : n \in 1..MaxBatch},
          dyn \in BOOLEAN,
          co \in BOOLEAN,
          total \in 0..MaxFrames,
          flaky \in BOOLEAN :
         LET r == __init__(path, bs, dyn, co, total, flaky)
         IN  /\ self' = r.self
             /\ cap' = r.cap
             /\ raised' = r.raised
             /\ open_calls' = r.opened
             /\ pc' = IF r.raised = "none" THEN "ready" ELSE "failed"
             /\ source' = path
             /\ can_open' = co
    /\ last_op' = "__init__"
    /\ UNCHANGED <<ret, history, absent_seen, release_calls>>

\* a read operation op returned r
Returned(op, r) ==
    /\ self' = r.self
    /\ cap' = r.cap
    /\ ret' = r.ret
    /\ last_op' = op
    /\ history' = history \o SubSeq(r.ret.frames, 1, r.cap.pos - cap.pos)
    /\ absent_seen' = (absent_seen \/ r.ret.kind = "None")
    /\ UNCHANGED <<pc, source, can_open, release_calls, open_calls>>

ReadFrame ==
    /\ pc = "ready"
    /\ \E ok \in BOOLEAN :
         \E r \in {read_frame([self |-> self, cap |-> cap], ok)} :
            Returned("read_frame",
                     [self |-> r.self, cap |-> r.cap, ret |-> FrameResult(r.ret)])
    /\ raised' = "none"

ReadBatch ==
    /\ pc = "ready"
    /\ self._batch_size # None
    /\ \E oks \in Choices(self) :
         \E r \in {read_batch([self |-> self, cap |-> cap], oks)} :
            Returned("read_batch", r)
    /\ raised' = "none"

Read ==
    /\ pc = "ready"
    /\ \E oks \in Choices(self) :
         \E r \in {read([self |-> self, cap |-> cap], oks)} :
            Returned("read", r)
    /\ raised' = "none"

\* __next__: read(), and StopIteration for None
DunderNext ==
    /\ pc = "ready"
    /\ \E oks \in Choices(self) :
         \E r \in {read([self |-> self, cap |-> cap], oks)} :
            /\ Returned("__next__", r)
            /\ raised' = IF r.ret.kind = "None" THEN "StopIteration" ELSE "none"

\* release(): the handle's release() when there is a handle; fails is that
\* call raising.  Gives the handle and whether the exception gets out.
release(s, c, fails) ==
    IF s._video_stream # "None"
    THEN [cap |-> cap_release(c, fails), called |-> 1, raises |-> fails]
    ELSE [cap |-> c, called |-> 0, raises |-> FALSE]

Released(op, r) ==
    /\ cap' = r.cap
    /\ release_calls' = release_calls + r.called
    /\ raised' = IF r.raises THEN "BackendError" ELSE "none"
    /\ last_op' = op
    /\ ret' = NoResult

Release ==
    /\ pc \in {"ready", "failed"}
    /\ release_calls < MaxReleases
    /\ \E fails \in BOOLEAN : Released("release", release(self, cap, fails))
    /\ UNCHANGED <<pc, self, source, can_open, history, absent_seen, open_calls>>

\* __exit__ of a with block
Exit ==
    /\ pc = "ready"
    /\ release_calls < MaxReleases
    /\ \E fails \in BOOLEAN : Released("__exit__", release(self, cap, fails))
    /\ UNCHANGED <<pc, self, source, can_open, history, absent_seen, open_calls>>

\* show(frame): on the quit key, release() and close the windows
Show ==
    /\ pc = "ready"
    /\ release_calls < MaxReleases
    /\ \E quit \in BOOLEAN, fails \in BOOLEAN :
         IF quit
         THEN Released("show", release(self, cap, fails))
         ELSE /\ last_op' = "show"
              /\ ret' = NoResult
              /\ raised' = "none"
              /\ UNCHANGED <<cap, release_calls>>
    /\ UNCHANGED <<pc, self, source, can_open, history, absent_seen, open_calls>>

\* __del__: release(), then _video_stream = None.  The interpreter ignores an
\* exception a finalizer lets out; the assignment after it is then not run.
Del ==
    /\ pc \in {"ready", "failed"}
    /\ \E fails \in BOOLEAN :
         LET r == release(self, cap, fails)
         IN  /\ cap' = r.cap
             /\ release_calls' = release_calls + r.called
             /\ self' = IF r.raises THEN self
                        ELSE [self EXCEPT !._video_stream = "None"]
    /\ raised' = "none"
    /\ last_op' = "__del__"
    /\ ret' = NoResult
    /\ pc' = "dead"
    /\ UNCHANGED <<source, can_open, history, absent_seen, open_calls>>

Next ==
    \/ Construct
    \/ ReadFrame
    \/ ReadBatch
    \/ Read
    \/ DunderNext
    \/ Release
    \/ Exit
    \/ Show
    \/ Del

Spec == Init /\ [][Next]_vars

\* What __next__ alone does: the iteration the for statement runs
IterNext ==
    \/ Construct
    \/ DunderNext

\* The caller keeps calling __next__
IterSpec == Init /\ [][IterNext]_vars /\ WF_vars(DunderNext)

\* ------------------------------------------------------- the claims
\* the step just taken was a read_batch call, direct or through read / __next__
BatchCalled ==
    \/ last_op' = "read_batch"
    \/ last_op' \in {"read", "__next__"} /\ self._batch_size # None

\* the frames the backend delivers during the step, in delivery order
Delivered == [j \in 1..(cap'.pos - cap.pos) |-> cap.pos + j]

\* every frame the backend has delivered so far, in delivery order
DeliveredSoFar == [j \in 1..cap.pos |-> j]

\* the file extension of a path: what follows the last "." of its last
\* component, and nothing when that component has no "."
FileExtension(p) ==
    LET b == basename(p)
    IN  IF \E i \in 1..Len(b) : b[i] = "." THEN split_last(b) ELSE <<>>

HasSupportedExtension(p) == in_EXTENSIONS(lower(FileExtension(p)))

\* a device index: a non-negative integer, or its numeric form
DeviceIndex(d) == d.is_int \/ isdigit(d.text)

\* C1: once a read operation has returned None, is_open() is false and every
\* later read, read_frame or read_batch returns None and leaves frame_count
\* as it is.
C1_ClosureTerminal ==
    [][absent_seen =>
         /\ ~is_open(self, cap)
         /\ last_op' \in ReadOps =>
              /\ ret'.kind = "None"
              /\ self'._frame_count = self._frame_count]_vars

\* C2: construction with a device index passes the extension check, opens the
\* backend by index and, the handle being open, succeeds with the title Webcam.
C2_DeviceIndexConstructs ==
    (last_op = "__init__" /\ DeviceIndex(source) /\ can_open) =>
        /\ pc = "ready"
        /\ open_calls = 1
        /\ cap.by_index
        /\ self._video_title = Some(<<"Webcam">>)

\* C3: for a path, a supported extension and a backend that can open it give
\* a constructed adapter; an unsupported extension gives the invalid-source
\* error with no cv2.VideoCapture call.
C3_ExtensionDecides ==
    (last_op = "__init__" /\ ~source.is_int) =>
        /\ (HasSupportedExtension(source.text) /\ can_open) => pc = "ready"
        /\ ~HasSupportedExtension(source.text) =>
              /\ pc = "failed"
              /\ raised = "InvalidSource"
              /\ open_calls = 0

\* C4: without dynamic batching a batch has batch_size entries, the frames
\* delivered during the call first and in order, zeros after them; a batch cut
\* short closes the reader, a closed reader gives None, and the real frames
\* handed out are the delivered ones, none lost and none twice.
C4_PaddedBatch ==
    /\ [][(BatchCalled /\ ~self._dynamic_batch) =>
            /\ ~is_open(self, cap) => ret'.kind = "None"
            /\ ret'.kind = "batch" =>
                 /\ Len(ret'.frames) = self._batch_size[1]
                 /\ \A j \in 1..Len(ret'.frames) :
                      ret'.frames[j] =
                          IF j <= Len(Delivered) THEN Delivered[j] ELSE 0
                 /\ Len(Delivered) < self._batch_size[1] =>
                      ~is_open(self', cap')]_vars
    /\ []((self._batch_size # None /\ ~self._dynamic_batch) =>
            history = DeliveredSoFar)

C4_Witness ==
    /\ last_op = "read_batch"
    /\ ~self._dynamic_batch
    /\ self._batch_size = Some(2)
    /\ ~cap.flaky
    /\ cap.total = 5
    /\ ret = BatchResult(<<5, 0>>)
    /\ history = <<1, 2, 3, 4, 5>>

\* C5: with dynamic batching a batch is exactly the frames delivered during
\* the call, in order and unpadded: between 0 and batch_size of them, and
\* none when the first backend read of the call gives no frame.
C5_DynamicBatch ==
    [][(BatchCalled /\ self._dynamic_batch /\ ret'.kind = "batch") =>
         /\ ret'.frames = Delivered
         /\ Len(ret'.frames) \in 0..self._batch_size[1]
         /\ \A j \in 1..Len(ret'.frames) : ret'.frames[j] # 0]_vars

C5_Witness ==
    /\ last_op = "read_batch"
    /\ self._dynamic_batch
    /\ self._batch_size = Some(2)
    /\ ret = BatchResult(<<>>)
    /\ history = <<1, 2>>

\* the entries of a result that are frames and not padding
RealEntries(r) == Cardinality({j \in 1..Len(r.frames) : r.frames[j] # 0})

\* C6: frame_count is 0 after construction, never goes down, goes up by one
\* for each frame a read hands out and by nothing for None or for padding, so
\* it is the number of frames the backend has delivered.
C6_FrameCount ==
    /\ [](last_op = "__init__" => self._frame_count = 0)
    /\ [](self._frame_count = cap.pos)
    /\ [][/\ self'._frame_count >= self._frame_count
          /\ last_op' \in ReadOps =>
               self'._frame_count = self._frame_count + RealEntries(ret')
          /\ last_op' \notin ReadOps =>
               self'._frame_count = self._frame_count]_vars

C6_Witness ==
    /\ last_op = "read_batch"
    /\ ~self._dynamic_batch
    /\ ret = BatchResult(<<3, 0>>)
    /\ self._frame_count = 3

\* C7: on a constructed adapter the handle's release() runs exactly once:
\* never twice, and once by the time the adapter is gone.
C7_ReleasedExactlyOnce ==
    self._info # None =>
        /\ release_calls <= 1
        /\ pc = "dead" => release_calls = 1

\* C8: release, __exit__ and __del__ let no exception out, whatever the
\* backend's release() does.
C8_ReleaseNeverRaises ==
    last_op \in {"release", "__exit__", "__del__"} => raised = "none"

\* C9: over a source of n frames that then fails every read, __next__ raises
\* StopIteration after finitely many calls, at the first call whose read gives
\* None and not before all n frames were handed out, and what it yields until
\* then is the stream in forward order, frame by frame or batch by batch.
C9_IterationEnds ==
    /\ [][last_op' = "__next__" =>
            (raised' = "StopIteration" <=> ret'.kind = "None")]_vars
    /\ []((pc = "ready" /\ ~cap.flaky) =>
            /\ absent_seen <=> raised = "StopIteration"
            /\ raised = "StopIteration" => history = [j \in 1..cap.total |-> j]
            /\ history = DeliveredSoFar
            /\ (last_op = "__next__" /\ raised = "none") =>
                 ret.kind = IF self._batch_size = None THEN "frame" ELSE "batch")
    /\ (pc = "ready" /\ ~cap.flaky) ~> (raised = "StopIteration")

C9_Witness ==
    /\ pc = "ready"
    /\ raised = "StopIteration"
    /\ ~cap.flaky
    /\ self._batch_size = Some(2)
    /\ cap.total = 3
    /\ history = <<1, 2, 3>>

\* C10: read_batch gives None exactly when is_open() is false as the call
\* starts; so with the stream used up and the reader still open it gives one
\* more batch with no real frame in it (batch_size zeros, or nothing with
\* dynamic batching), closes the reader, and gives None from the next call on.
C10_ExtraEmptyBatch ==
    [][BatchCalled =>
         /\ ret'.kind = "None" <=> ~is_open(self, cap)
         /\ (is_open(self, cap) /\ cap.pos = cap.total) =>
              /\ ret' = BatchResult(IF self._dynamic_batch THEN <<>>
                                    ELSE zeros(self._batch_size[1]))
              /\ ~is_open(self', cap')]_vars

C10_Witness ==
    /\ last_op = "read_batch"
    /\ ~cap.flaky
    /\ self._batch_size = Some(2)
    /\ cap.total = 4
    /\ cap.pos = 4
    /\ ret = BatchResult(<<0, 0>>)
    /\ history = <<1, 2, 3, 4>>

====
